---- MODULE Spec2Model ----
(***************************************************************************)
(* Model of pip_get.py: resolution of a package specification against the  *)
(* index's simple listing, the version/name/latest/extension filtering of  *)
(* the artifact URLs, and the show / download step.                        *)
(*                                                                         *)
(* Strings are sequences of one-character strings, so that the regular     *)
(* expressions, split/rsplit, endswith and substring tests of the source   *)
(* are computed character by character.  Python's None and the empty       *)
(* string are both falsy wherever the source tests them, and both are the  *)
(* empty sequence here.                                                    *)
(***************************************************************************)
EXTENDS Integers, Sequences, FiniteSets, TLC

(* Bound on the number of anchors of the listing page. *)
MaxListing == 2

\* ------------------------------------------------------------------------
\* Characters
\* ------------------------------------------------------------------------
Digits == {"0", "1", "2", "3", "4", "5", "6", "7", "8", "9"}

LowerLetters ==
  {"a", "b", "c", "d", "e", "f", "g", "h", "i", "j", "k", "l", "m",
   "n", "o", "p", "q", "r", "s", "t", "u", "v", "w", "x", "y", "z"}

UpperLetters == {"Z", "I", "P"}

\* \w of the re module (ASCII part)
WordChars == Digits \cup LowerLetters \cup UpperLetters \cup {"_"}

\* [0-9a-zA-Z\w\.]
VersionRunChars == WordChars \cup {"."}

\* [><=]
OperatorChars == {">", "<", "="}

\* [A-Za-z0-9_\-]
PackageNameChars == WordChars \cup {"-"}

\* [0-9A-Za-z\.\-]
SpecVersionChars == (WordChars \ {"_"}) \cup {".", "-"}

\* the character class [tar|tgz|whl|zip]: ONE character out of these
ExtensionClassChars == {"t", "a", "r", "|", "g", "z", "w", "h", "l", "i", "p"}

\* every character a string of the model is made of
AllChars ==
  WordChars \cup OperatorChars \cup ExtensionClassChars \cup {".", "-", ",", "#", "/"}

\* [^-]
NonHyphenChars == AllChars \ {"-"}

DigitValue(c) ==
  CASE c = "0" -> 0 [] c = "1" -> 1 [] c = "2" -> 2 [] c = "3" -> 3
    [] c = "4" -> 4 [] c = "5" -> 5 [] c = "6" -> 6 [] c = "7" -> 7
    [] c = "8" -> 8 [] c = "9" -> 9

\* ------------------------------------------------------------------------
\* str methods
\* ------------------------------------------------------------------------
LowerChar(c) ==
  CASE c = "Z" -> "z" [] c = "I" -> "i" [] c = "P" -> "p" [] OTHER -> c

\* str.lower()
Lower(s) == [k \in 1..Len(s) |-> LowerChar(s[k])]

\* str.endswith(suffix)
EndsWith(s, suffix) ==
  /\ Len(suffix) <= Len(s)
  /\ SubSeq(s, Len(s) - Len(suffix) + 1, Len(s)) = suffix

\* the `in` operator on two strings
Contains(sub, s) ==
  \E k \in 0..(Len(s) - Len(sub)) : SubSeq(s, k + 1, k + Len(sub)) = sub

Positions(s, c) == {k \in 1..Len(s) : s[k] = c}

SetMax(S) == CHOOSE m \in S : \A k \in S : k <= m

SetMin(S) == CHOOSE m \in S : \A k \in S : m <= k

\* str.split(sep) for a one-character separator
RECURSIVE Split(_, _)
Split(s, sep) ==
  IF Positions(s, sep) = {}
  THEN <<s>>
  ELSE LET k == SetMin(Positions(s, sep))
       IN  <<SubSeq(s, 1, k - 1)>> \o Split(SubSeq(s, k + 1, Len(s)), sep)

\* str.rsplit(sep, 1)[0] for a one-character separator
RSplitFirst(s, sep) ==
  IF Positions(s, sep) = {}
  THEN s
  ELSE SubSeq(s, 1, SetMax(Positions(s, sep)) - 1)

\* sep.join(parts)
RECURSIVE Join(_, _)
Join(parts, sep) ==
  IF Len(parts) = 0 THEN <<>>
  ELSE IF Len(parts) = 1 THEN parts[1]
  ELSE parts[1] \o <<sep>> \o Join(Tail(parts), sep)

\* ------------------------------------------------------------------------
\* packaging.version.Version
\*
\* Version(s) is modelled on the release-only grammar N(.N)*: any other
\* string raises InvalidVersion.  The strings of this model that contain a
\* letter ("x", "py3", "x.0.0") are invalid for the library as well; no
\* string with an epoch, a "v" prefix or a pre/post/dev/local part occurs.
\* ------------------------------------------------------------------------
IsNumber(s) == Len(s) > 0 /\ \A k \in 1..Len(s) : s[k] \in Digits

RECURSIVE ToInt(_)
ToInt(s) ==
  IF Len(s) = 0 THEN 0
  ELSE 10 * ToInt(SubSeq(s, 1, Len(s) - 1)) + DigitValue(s[Len(s)])

ValidVersion(s) ==
  /\ Len(s) > 0
  /\ \A k \in 1..Len(Split(s, ".")) : IsNumber(Split(s, ".")[k])

\* the release tuple of a valid version
Release(s) ==
  LET parts == Split(s, ".") IN [k \in 1..Len(parts) |-> ToInt(parts[k])]

ReleaseAt(r, k) == IF k <= Len(r) THEN r[k] ELSE 0

\* Version.__eq__: releases compare with trailing zeros insignificant
VersionEq(a, b) ==
  \A k \in 1..(Len(a) + Len(b)) : ReleaseAt(a, k) = ReleaseAt(b, k)

\* Version.__lt__
VersionLt(a, b) ==
  \E k \in 1..(Len(a) + Len(b)) :
    /\ ReleaseAt(a, k) < ReleaseAt(b, k)
    /\ \A j \in 1..(k - 1) : ReleaseAt(a, j) = ReleaseAt(b, j)

VersionGt(a, b) == VersionLt(b, a)

\* ------------------------------------------------------------------------
\* parse_package_spec
\* ------------------------------------------------------------------------
\* length of the longest prefix of s made of characters of cls
RECURSIVE RunLength(_, _)
RunLength(s, cls) ==
  IF Len(s) = 0 \/ s[1] \notin cls THEN 0
  ELSE 1 + RunLength(Tail(s), cls)

Drop(s, n) == SubSeq(s, n + 1, Len(s))

\* ^([A-Za-z0-9_\-]+)([><=]+)([0-9A-Za-z\.\-]+)$ ; the three classes are
\* pairwise disjoint where they meet, so the match is the three runs
parse_package_spec(input_str) ==
  LET n1 == RunLength(input_str, PackageNameChars)
      r1 == Drop(input_str, n1)
      n2 == RunLength(r1, OperatorChars)
      r2 == Drop(r1, n2)
      n3 == RunLength(r2, SpecVersionChars)
  IN  IF n1 > 0 /\ n2 > 0 /\ n3 > 0 /\ n3 = Len(r2)
      THEN [pkg |-> SubSeq(input_str, 1, n1), cond |-> SubSeq(r1, 1, n2) \o r2]
      ELSE [pkg |-> input_str, cond |-> <<>>]

\* ------------------------------------------------------------------------
\* normalize_version
\* ------------------------------------------------------------------------
RECURSIVE PadParts(_)
PadParts(version_parts) ==
  IF Len(version_parts) < 3
  THEN PadParts(Append(version_parts, <<"0">>))
  ELSE version_parts

normalize_version(version) == Join(PadParts(Split(version, ".")), ".")

\* ------------------------------------------------------------------------
\* re.search(r'([><=]+)([0-9\w\.]+)', version_condition)
\* ------------------------------------------------------------------------
ConditionMatchStarts(s) ==
  {k \in 1..Len(s) :
     LET n == RunLength(Drop(s, k - 1), OperatorChars)
     IN  n > 0 /\ RunLength(Drop(s, k - 1 + n), VersionRunChars) > 0}

SearchCondition(s) ==
  IF ConditionMatchStarts(s) = {}
  THEN [matched |-> FALSE, op |-> <<>>, ver |-> <<>>]
  ELSE LET k  == SetMin(ConditionMatchStarts(s))
           n  == RunLength(Drop(s, k - 1), OperatorChars)
           r  == Drop(s, k - 1 + n)
       IN  [matched |-> TRUE,
            op |-> SubSeq(s, k, k + n - 1),
            ver |-> SubSeq(r, 1, RunLength(r, VersionRunChars))]

\* ------------------------------------------------------------------------
\* Version extraction from a link or a file name
\* ------------------------------------------------------------------------
NoMatch == [matched |-> FALSE, str |-> <<>>]

\* re.search(r'-([0-9][^-]+)-', s): a hyphen, a digit, at least one more
\* character that is not a hyphen, up to the next hyphen
HyphenBoundedStarts(s) ==
  {k \in 1..Len(s) :
     /\ s[k] = "-"
     /\ k + 1 <= Len(s)
     /\ s[k + 1] \in Digits
     /\ LET n == RunLength(Drop(s, k), NonHyphenChars)
        IN  n >= 2 /\ k + n + 1 <= Len(s) /\ s[k + n + 1] = "-"}

SearchHyphenBounded(s) ==
  IF HyphenBoundedStarts(s) = {}
  THEN NoMatch
  ELSE LET k == SetMin(HyphenBoundedStarts(s))
           n == RunLength(Drop(s, k), NonHyphenChars)
       IN  [matched |-> TRUE, str |-> SubSeq(s, k + 1, k + n)]

\* the ends e of a group s[k+1..e] of r'-([0-9a-zA-Z\w\.]+)\.[tar|tgz|whl|zip]'
\* matched from the hyphen at k
DotExtensionEnds(s, k) ==
  {e \in (k + 1)..(Len(s) - 2) :
     /\ \A j \in (k + 1)..e : s[j] \in VersionRunChars
     /\ s[e + 1] = "."
     /\ s[e + 2] \in ExtensionClassChars}

DotExtensionStarts(s) ==
  {k \in 1..Len(s) : s[k] = "-" /\ DotExtensionEnds(s, k) # {}}

\* leftmost hyphen, greedy group
SearchDotExtension(s) ==
  IF DotExtensionStarts(s) = {}
  THEN NoMatch
  ELSE LET k == SetMin(DotExtensionStarts(s))
       IN  [matched |-> TRUE, str |-> SubSeq(s, k + 1, SetMax(DotExtensionEnds(s, k)))]

\* lines 63-70 and 113-119: first the hyphen-bounded pattern, else the
\* dot-extension pattern followed by rsplit('.', 1)[0]
ExtractVersion(s) ==
  IF SearchHyphenBounded(s).matched
  THEN SearchHyphenBounded(s)
  ELSE IF SearchDotExtension(s).matched
       THEN [matched |-> TRUE, str |-> RSplitFirst(SearchDotExtension(s).str, ".")]
       ELSE NoMatch

\* ------------------------------------------------------------------------
\* URLs
\*
\* A URL is the string after "https://files.pythonhosted.org/packages":
\* "/<directory>/<file name>" and an optional "#<fragment>".  The omitted
\* prefix holds no hyphen and no "#", so no pattern of the source matches
\* inside it.
\* ------------------------------------------------------------------------
\* link.rsplit("#", 1)[0]
StripFragment(link) == RSplitFirst(link, "#")

\* urlparse(url).path: the URL up to its fragment
UrlPath(url) ==
  IF Positions(url, "#") = {} THEN url
  ELSE SubSeq(url, 1, SetMin(Positions(url, "#")) - 1)

\* os.path.basename(urlparse(url).path)
BaseName(url) ==
  LET path == UrlPath(url)
  IN  IF Positions(path, "/") = {} THEN path
      ELSE Drop(path, SetMax(Positions(path, "/")))

\* ['.tar.gz', '.tgz', '.whl', '.zip'] (line 61)
ArchiveExtensions ==
  << <<".", "t", "a", "r", ".", "g", "z">>, <<".", "t", "g", "z">>,
     <<".", "w", "h", "l">>, <<".", "z", "i", "p">> >>

\* any(link.lower().endswith(ext) for ext in exts)
HasExtension(link, exts) ==
  \E k \in 1..Len(exts) : EndsWith(Lower(link), exts[k])

\* ------------------------------------------------------------------------
\* get_package_urls: the constraint stage (lines 59-89)
\* ------------------------------------------------------------------------
OpGt == <<">">>
OpGe == <<">", "=">>
OpLt == <<"<">>
OpLe == <<"<", "=">>
OpEq == <<"=", "=">>

\* the if/elif chain of lines 75-84 on parsed versions
Compare(condition_op, link_version, condition_version) ==
  \/ condition_op = OpGt /\ VersionGt(link_version, condition_version)
  \/ condition_op = OpGe /\ ~VersionLt(link_version, condition_version)
  \/ condition_op = OpLt /\ VersionLt(link_version, condition_version)
  \/ condition_op = OpLe /\ ~VersionGt(link_version, condition_version)
  \/ condition_op = OpEq /\ VersionEq(link_version, condition_version)

\* the outcome of one iteration of the loop of line 59, on the stripped link
ConstraintOutcome(link, condition_op, condition_version) ==
  IF ~HasExtension(link, ArchiveExtensions) THEN "skipped"
  ELSE IF ~ExtractVersion(link).matched \/ ExtractVersion(link).str = <<>>
       THEN "skipped"
  ELSE IF ~ValidVersion(ExtractVersion(link).str) THEN "invalid"
  ELSE IF Compare(condition_op, Release(ExtractVersion(link).str), condition_version)
       THEN "kept"
  ELSE "skipped"

Message(msg, arg) == [msg |-> msg, arg |-> arg]

\* filtered_urls after the loop of lines 59-87
\* faulty variant: the kept link is put in front of the list
RECURSIVE ConstraintFilterPrepending(_, _, _)
ConstraintFilterPrepending(links, condition_op, condition_version) ==
  IF Len(links) = 0 THEN <<>>
  ELSE LET link == StripFragment(Head(links))
           rest == ConstraintFilterPrepending(Tail(links), condition_op,
                                              condition_version)
       IN  IF ConstraintOutcome(link, condition_op, condition_version) = "kept"
           THEN rest \o <<link>>
           ELSE rest

RECURSIVE ConstraintFilter(_, _, _)
ConstraintFilter(links, condition_op, condition_version) ==
  IF Len(links) = 0 THEN <<>>
  ELSE LET link == StripFragment(Head(links))
           rest == ConstraintFilter(Tail(links), condition_op, condition_version)
       IN  IF ConstraintOutcome(link, condition_op, condition_version) = "kept"
           THEN <<link>> \o rest
           ELSE rest

\* what the loop of lines 59-87 prints (line 86)
RECURSIVE ConstraintMessages(_, _, _)
ConstraintMessages(links, condition_op, condition_version) ==
  IF Len(links) = 0 THEN <<>>
  ELSE LET link == StripFragment(Head(links))
           rest == ConstraintMessages(Tail(links), condition_op, condition_version)
       IN  IF ConstraintOutcome(link, condition_op, condition_version) = "invalid"
           THEN <<Message("invalid version in package", link)>> \o rest
           ELSE rest

\* lines 91-94
StripAll(links) == [k \in 1..Len(links) |-> StripFragment(links[k])]

\* ------------------------------------------------------------------------
\* get_package_urls: the name filter (lines 98-104)
\* ------------------------------------------------------------------------
\* any(f in file_name for f in filters)
MatchesFilters(url, filter_list) ==
  \E k \in 1..Len(filter_list) : Contains(filter_list[k], BaseName(url))

\* faulty variant: the filter list is ignored
NameFilterIgnored(links, filter_list) == links

RECURSIVE NameFilter(_, _)
NameFilter(links, filter_list) ==
  IF Len(links) = 0 THEN <<>>
  ELSE IF MatchesFilters(Head(links), filter_list)
       THEN <<Head(links)>> \o NameFilter(Tail(links), filter_list)
       ELSE NameFilter(Tail(links), filter_list)

\* ------------------------------------------------------------------------
\* get_package_urls: the latest stage (lines 107-127)
\* ------------------------------------------------------------------------
\* The loop of lines 110-126 from element k on, with latest_url and
\* latest_version as they stand (best = <<>> is None, <<url>> otherwise).
\* Line 119 calls match.group on None when neither pattern matches: the
\* AttributeError is not caught by `except InvalidVersion`.
RECURSIVE LatestScan(_, _, _)
LatestScan(links, k, best) ==
  IF k > Len(links)
  THEN [raised |-> FALSE, urls |-> best]
  ELSE LET version == ExtractVersion(BaseName(links[k]))
       IN  IF ~version.matched
           THEN [raised |-> TRUE, urls |-> <<>>]
           ELSE IF ~ValidVersion(version.str)
                THEN LatestScan(links, k + 1, best)
           ELSE IF \/ best = <<>>
                   \/ VersionGt(Release(version.str),
                                Release(ExtractVersion(BaseName(best[1])).str))
                THEN LatestScan(links, k + 1, <<links[k]>>)
           ELSE LatestScan(links, k + 1, best)

LatestSelect(links) == LatestScan(links, 1, <<>>)

\* ------------------------------------------------------------------------
\* main: the extension filter (lines 183-184)
\* ------------------------------------------------------------------------
RECURSIVE ExtensionFilter(_, _)
ExtensionFilter(links, exts) ==
  IF Len(links) = 0 THEN <<>>
  ELSE IF HasExtension(Head(links), exts)
       THEN <<Head(links)>> \o ExtensionFilter(Tail(links), exts)
       ELSE ExtensionFilter(Tail(links), exts)

\* ------------------------------------------------------------------------
\* Inputs
\* ------------------------------------------------------------------------
FileZip   == <<"p", "-", "1", ".", "2", ".", "3", ".", "z", "i", "p">>
FileTarGz == <<"p", "-", "1", ".", "2", ".", "0", ".", "t", "a", "r", ".", "g", "z">>
FileWhl   == <<"p", "-", "1", ".", "3", "-", "p", "y", "3", ".", "w", "h", "l">>
FileTgz   == <<"p", "-", "1", ".", "4", ".", "1", ".", "t", "g", "z">>
FileBadVersion == <<"p", "-", "x", ".", "z", "i", "p">>
FileExe   == <<"p", "-", "1", ".", "0", ".", "e", "x", "e">>
FileUpper == <<"p", "-", "2", ".", "Z", "I", "P">>

Fragment == <<"#", "f">>

Url(dir, file_name, fragment) == <<"/", dir, "/">> \o file_name \o fragment

\* the anchors a listing page is made of
CandidateUrls ==
  { Url("a", FileZip, Fragment), Url("b", FileZip, <<>>),
    Url("a", FileTarGz, Fragment), Url("a", FileWhl, Fragment),
    Url("a", FileTgz, Fragment), Url("a", FileBadVersion, Fragment),
    Url("a", FileExe, Fragment), Url("a", FileUpper, <<>>) }

Listings == UNION {[1..n -> CandidateUrls] : n \in 0..MaxListing}

\* the two positionals package_spec and version_condition
Positionals ==
  { <<<<"p">>, <<>>>>,
    <<<<"p", ">", "=", "1", ".", "2">>, <<>>>>,
    <<<<"p", "<", "=", "1", ".", "2">>, <<>>>>,
    <<<<"p">>, <<"=", "=", "1", ".", "2", ".", "3">>>>,
    <<<<"p", "<", "1", ".", "3">>, <<">", "1", ".", "2", ".", "0">>>>,
    <<<<"p">>, <<"=", ">", "1">>>>,
    <<<<"p">>, <<"1", ".", "2">>>>,
    <<<<"p">>, <<">", "=", "x">>>> }

\* --filter: absent, or "zip,py3"
FilterOptions == { <<>>, <<"z", "i", "p", ",", "p", "y", "3">> }

\* --ext: the default "whl,zip,tgz,gz", or "whl"
DefaultExt ==
  <<"w", "h", "l", ",", "z", "i", "p", ",", "t", "g", "z", ",", "g", "z">>

ExtOptions == { DefaultExt, <<"w", "h", "l">> }

\* content of a file that was in the destination directory before the run
OldContent == <<"old">>

\* the destination directory before the run: file name -> content
InitialDirectories == { <<>>, (FileZip :> OldContent) }

HttpStatuses == {200, 404}

\* ------------------------------------------------------------------------
\* State
\* ------------------------------------------------------------------------
VARIABLES
  args,               \* the parsed command line (argparse namespace)
  listing,            \* the hrefs of the index page, in page order
  pc,                 \* the position of the run
  pkg_name,           \* main: pkg_name
  version_condition,  \* main: version_condition
  filters,            \* main: filters
  condition_op,       \* get_package_urls: condition_op
  condition_version,  \* get_package_urls: condition_version (release tuple)
  urls,               \* get_package_urls / main: urls
  idx,                \* main: position of the download loop
  fs,                 \* the destination directory: file name -> content
  gets,               \* the artifact GETs issued, in order: <<url, status>>
  calls,              \* the URLs download_file was called with, in order
  out,                \* what was printed
  exit_status,        \* -1 while running, else the exit status
  uncaught            \* the exception that left main, if any

vars ==
  <<args, listing, pc, pkg_name, version_condition, filters, condition_op,
    condition_version, urls, idx, fs, gets, calls, out, exit_status, uncaught>>

NoException == "none"

Init ==
  /\ args \in [package_spec : {p[1] : p \in Positionals},
               version_condition : {p[2] : p \in Positionals},
               filter : FilterOptions,
               ext : ExtOptions,
               latest : BOOLEAN,
               show_only : BOOLEAN]
  /\ <<args.package_spec, args.version_condition>> \in Positionals
  /\ listing \in Listings
  /\ fs \in InitialDirectories
  /\ pc = "main"
  /\ pkg_name = <<>>
  /\ version_condition = <<>>
  /\ filters = <<>>
  /\ condition_op = <<>>
  /\ condition_version = <<>>
  /\ urls = <<>>
  /\ idx = 1
  /\ gets = <<>>
  /\ calls = <<>>
  /\ out = <<>>
  /\ exit_status = -1
  /\ uncaught = NoException

\* ------------------------------------------------------------------------
\* Steps of main
\* ------------------------------------------------------------------------
\* sys.exit(1) after a printed error
Exit1(msg, arg) ==
  /\ out' = Append(out, Message(msg, arg))
  /\ exit_status' = 1
  /\ pc' = "exited"
  /\ UNCHANGED uncaught

\* an exception nobody catches: traceback, exit status 1
Raise(exception) ==
  /\ uncaught' = exception
  /\ exit_status' = 1
  /\ pc' = "exited"
  /\ UNCHANGED out

\* lines 168-177
ParseArgs ==
  /\ pc = "main"
  /\ pkg_name' = parse_package_spec(args.package_spec).pkg
  /\ version_condition' =
       IF args.version_condition # <<>>
       THEN args.version_condition
       ELSE parse_package_spec(args.package_spec).cond
  /\ filters' = IF args.filter # <<>> THEN Split(args.filter, ",") ELSE <<>>
  /\ pc' = "fetch"
  /\ UNCHANGED <<args, listing, condition_op, condition_version, urls, idx,
                 fs, gets, calls, out, exit_status, uncaught>>

\* lines 38-45: the GET of the listing page
FetchListing ==
  /\ pc = "fetch"
  /\ \E status \in HttpStatuses :
       IF status # 200
       THEN /\ Exit1("failed to fetch", pkg_name)
            /\ UNCHANGED urls
       ELSE /\ urls' = listing
            /\ pc' = IF version_condition # <<>> THEN "condition" ELSE "strip"
            /\ UNCHANGED <<out, exit_status, uncaught>>
  /\ UNCHANGED <<args, listing, pkg_name, version_condition, filters,
                 condition_op, condition_version, idx, fs, gets, calls>>

\* lines 50-57: re.search(...).groups(), normalize_version, Version
ParseCondition ==
  /\ pc = "condition"
  /\ LET m == SearchCondition(version_condition)
     IN  IF ~m.matched
         THEN /\ Raise("AttributeError")
              /\ UNCHANGED <<condition_op, condition_version>>
         ELSE IF ~ValidVersion(normalize_version(m.ver))
         THEN /\ Exit1("invalid version format in condition", version_condition)
              /\ UNCHANGED <<condition_op, condition_version>>
         ELSE /\ condition_op' = m.op
              /\ condition_version' = Release(normalize_version(m.ver))
              /\ pc' = "constraint"
              /\ UNCHANGED <<out, exit_status, uncaught>>
  /\ UNCHANGED <<args, listing, pkg_name, version_condition, filters, urls,
                 idx, fs, gets, calls>>

\* lines 59-89
ConstraintStage ==
  /\ pc = "constraint"
  /\ urls' = ConstraintFilter(urls, condition_op, condition_version)
  /\ out' = out \o ConstraintMessages(urls, condition_op, condition_version)
  /\ pc' = "filter"
  /\ UNCHANGED <<args, listing, pkg_name, version_condition, filters,
                 condition_op, condition_version, idx, fs, gets, calls,
                 exit_status, uncaught>>

\* lines 90-94
StripStage ==
  /\ pc = "strip"
  /\ urls' = StripAll(urls)
  /\ pc' = "filter"
  /\ UNCHANGED <<args, listing, pkg_name, version_condition, filters,
                 condition_op, condition_version, idx, fs, gets, calls, out,
                 exit_status, uncaught>>

\* lines 98-104
NameFilterStage ==
  /\ pc = "filter"
  /\ urls' = IF filters # <<>> THEN NameFilter(urls, filters) ELSE urls
  /\ pc' = "latest"
  /\ UNCHANGED <<args, listing, pkg_name, version_condition, filters,
                 condition_op, condition_version, idx, fs, gets, calls, out,
                 exit_status, uncaught>>

\* lines 107-129
LatestStage ==
  /\ pc = "latest"
  /\ IF args.latest /\ urls # <<>>
     THEN IF LatestSelect(urls).raised
          THEN /\ Raise("AttributeError")
               /\ UNCHANGED urls
          ELSE /\ urls' = LatestSelect(urls).urls
               /\ pc' = "returned"
               /\ UNCHANGED <<out, exit_status, uncaught>>
     ELSE /\ pc' = "returned"
          /\ UNCHANGED <<urls, out, exit_status, uncaught>>
  /\ UNCHANGED <<args, listing, pkg_name, version_condition, filters,
                 condition_op, condition_version, idx, fs, gets, calls>>

\* lines 183-184
ExtensionStage ==
  /\ pc = "returned"
  /\ urls' = ExtensionFilter(urls, Split(args.ext, ","))
  /\ pc' = IF args.show_only THEN "show" ELSE "download"
  /\ UNCHANGED <<args, listing, pkg_name, version_condition, filters,
                 condition_op, condition_version, idx, fs, gets, calls, out,
                 exit_status, uncaught>>

\* lines 186-188 and show_package_info (150-153); main returns
ShowPackageInfo ==
  /\ pc = "show"
  /\ out' = out \o [k \in 1..Len(urls) |-> Message("File", BaseName(urls[k]))]
  /\ exit_status' = 0
  /\ pc' = "exited"
  /\ UNCHANGED <<args, listing, pkg_name, version_condition, filters,
                 condition_op, condition_version, urls, idx, fs, gets, calls,
                 uncaught>>

\* faulty variant: no existence check, an existing file is overwritten
download_file_overwriting(url, status) ==
  /\ gets' = Append(gets, <<url, status>>)
  /\ IF status = 200
     THEN /\ fs' = [f \in DOMAIN fs \cup {BaseName(url)} |->
                      IF f = BaseName(url) THEN url ELSE fs[f]]
          /\ out' = out \o << Message("Downloading", BaseName(url)),
                              Message("Downloaded", BaseName(url)) >>
     ELSE /\ out' = out \o << Message("Downloading", BaseName(url)),
                              Message("failed to download", url) >>
          /\ UNCHANGED fs

\* faulty variant: the body is written whatever the status
download_file_ignoring_status(url, status) ==
  IF BaseName(url) \in DOMAIN fs
  THEN /\ out' = Append(out, Message("already exists", BaseName(url)))
       /\ UNCHANGED <<fs, gets>>
  ELSE /\ gets' = Append(gets, <<url, status>>)
       /\ fs' = [f \in DOMAIN fs \cup {BaseName(url)} |->
                   IF f = BaseName(url) THEN url ELSE fs[f]]
       /\ out' = out \o << Message("Downloading", BaseName(url)),
                           Message("Downloaded", BaseName(url)) >>

\* download_file (lines 132-147) for the url at idx, with the status the
\* server answers if a GET is issued
download_file(url, status) ==
  IF BaseName(url) \in DOMAIN fs
  THEN /\ out' = Append(out, Message("already exists", BaseName(url)))
       /\ UNCHANGED <<fs, gets>>
  ELSE /\ gets' = Append(gets, <<url, status>>)
       /\ IF status = 200
          THEN /\ fs' = [f \in DOMAIN fs \cup {BaseName(url)} |->
                           IF f = BaseName(url) THEN url ELSE fs[f]]
               /\ out' = out \o << Message("Downloading", BaseName(url)),
                                   Message("Downloaded", BaseName(url)) >>
          ELSE /\ out' = out \o << Message("Downloading", BaseName(url)),
                                   Message("failed to download", url) >>
               /\ UNCHANGED fs

\* faulty variant: a download that fails ends the run, as a failed listing does
DownloadStepAborting ==
  /\ pc = "download"
  /\ idx <= Len(urls)
  /\ \E status \in HttpStatuses :
       /\ download_file(urls[idx], status)
       /\ IF status # 200 /\ BaseName(urls[idx]) \notin DOMAIN fs
          THEN pc' = "exited" /\ exit_status' = 1
          ELSE UNCHANGED <<pc, exit_status>>
  /\ calls' = Append(calls, urls[idx])
  /\ idx' = idx + 1
  /\ UNCHANGED <<args, listing, pkg_name, version_condition, filters,
                 condition_op, condition_version, urls, uncaught>>

\* one iteration of the loop of lines 191-192
DownloadStep ==
  /\ pc = "download"
  /\ idx <= Len(urls)
  /\ \E status \in HttpStatuses : download_file(urls[idx], status)
  /\ calls' = Append(calls, urls[idx])
  /\ idx' = idx + 1
  /\ UNCHANGED <<args, listing, pc, pkg_name, version_condition, filters,
                 condition_op, condition_version, urls, exit_status, uncaught>>

\* the loop of lines 191-192 is exhausted; main returns
EndOfDownloads ==
  /\ pc = "download"
  /\ idx > Len(urls)
  /\ exit_status' = 0
  /\ pc' = "exited"
  /\ UNCHANGED <<args, listing, pkg_name, version_condition, filters,
                 condition_op, condition_version, urls, idx, fs, gets, calls,
                 out, uncaught>>

Next ==
  \/ ParseArgs
  \/ FetchListing
  \/ ParseCondition
  \/ ConstraintStage
  \/ StripStage
  \/ NameFilterStage
  \/ LatestStage
  \/ ExtensionStage
  \/ ShowPackageInfo
  \/ DownloadStep
  \/ EndOfDownloads

Spec == Init /\ [][Next]_vars

\* Runs in download-relevant configurations: no name filter, no latest,
\* the default extensions, with or without a constraint, over listings of
\* urls that share a base name or not.
DownloadUrls ==
  { Url("a", FileZip, Fragment), Url("b", FileZip, <<>>),
    Url("a", FileTarGz, Fragment) }

DownloadInit ==
  /\ Init
  /\ args.package_spec \in {<<"p">>, <<"p", ">", "=", "1", ".", "2">>}
  /\ args.version_condition = <<>>
  /\ args.filter = <<>>
  /\ args.ext = DefaultExt
  /\ ~args.latest
  /\ \A k \in 1..Len(listing) : listing[k] \in DownloadUrls

\* The download loop is sequential and every call returns: its next
\* iteration, and the return of main at its end, are taken when they can be.
DownloadSpec ==
  DownloadInit /\ [][Next]_vars /\ WF_vars(DownloadStep) /\ WF_vars(EndOfDownloads)

\* ------------------------------------------------------------------------
\* Properties
\* ------------------------------------------------------------------------
Range(seq) == {seq[k] : k \in 1..Len(seq)}

\* the contents of the files of the destination directory
FileContents == {fs[f] : f \in DOMAIN fs}

FiveOperators == {OpGt, OpGe, OpLt, OpLe, OpEq}

ConstraintPresent == version_condition # <<>>

\* the listing page with every fragment removed
StrippedListing == StripAll(listing)

\* the version the source derives from a url, when it derives one that parses
HasParseableVersion(url) ==
  /\ ExtractVersion(BaseName(url)).matched
  /\ ValidVersion(ExtractVersion(BaseName(url)).str)

ExtractedRelease(url) == Release(ExtractVersion(BaseName(url)).str)

Exited == pc = "exited"

LastMessage == out[Len(out)].msg

\* C1: a run ends either with a printed error and a non-zero status, after
\* a failed listing fetch or an unparseable constraint version, or with
\* status zero; no exception leaves main uncaught.
C1_TwoWaysToTerminate ==
  Exited =>
    /\ uncaught = NoException
    /\ exit_status \in {0, 1}
    /\ exit_status = 1 =>
         /\ Len(out) > 0
         /\ LastMessage \in {"failed to fetch", "invalid version format in condition"}

\* C9: the operator the comparison stage works with is one of the five
\* operators >, >=, <, <=, ==.
C9_OperatorIsOneOfFive ==
  pc = "constraint" => condition_op \in FiveOperators

\* the version V of a file name name-V.tar.gz, name-V.tgz, name-V.zip or
\* name-V-<tags>.whl (name without a hyphen); the empty string otherwise
ArtifactVersion(file_name) ==
  IF Positions(file_name, "-") = {} THEN <<>>
  ELSE LET rest == Drop(file_name, SetMin(Positions(file_name, "-")))
       IN  IF EndsWith(file_name, ArchiveExtensions[3])
           THEN IF Positions(rest, "-") = {} THEN <<>>
                ELSE SubSeq(rest, 1, SetMin(Positions(rest, "-")) - 1)
           ELSE IF EndsWith(file_name, ArchiveExtensions[1])
                THEN SubSeq(rest, 1, Len(rest) - Len(ArchiveExtensions[1]))
           ELSE IF EndsWith(file_name, ArchiveExtensions[2])
                THEN SubSeq(rest, 1, Len(rest) - Len(ArchiveExtensions[2]))
           ELSE IF EndsWith(file_name, ArchiveExtensions[4])
                THEN SubSeq(rest, 1, Len(rest) - Len(ArchiveExtensions[4]))
           ELSE <<>>

WellFormedArtifact(url) == ValidVersion(ArtifactVersion(BaseName(url)))

\* C4: under a constraint (op, C) the constraint stage keeps the url of a
\* well-formed artifact name-V.<ext> exactly when V op C holds.
C4_ConstraintStageKeepsExactlyMatching ==
  (pc = "filter" /\ ConstraintPresent /\ condition_op \in FiveOperators) =>
    \A k \in 1..Len(StrippedListing) :
      WellFormedArtifact(StrippedListing[k]) =>
        (StrippedListing[k] \in Range(urls)
           <=> Compare(condition_op,
                       Release(ArtifactVersion(BaseName(StrippedListing[k]))),
                       condition_version))

\* the positions of the urls with a parseable version
ParseablePositions(links) ==
  {k \in 1..Len(links) : HasParseableVersion(links[k])}

\* the first position, in list order, whose version no other one exceeds
FirstMaximal(links) ==
  SetMin({k \in ParseablePositions(links) :
            \A j \in ParseablePositions(links) :
              ~VersionGt(ExtractedRelease(links[j]), ExtractedRelease(links[k]))})

LatestContract(surviving, result) ==
  IF ParseablePositions(surviving) = {}
  THEN result = <<>>
  ELSE result = <<surviving[FirstMaximal(surviving)]>>

\* C5: with latest set, get_package_urls returns the first url of maximal
\* parseable version among the surviving urls, and the empty list exactly
\* when no surviving url has a parseable version.
C5_LatestReturnsFirstMaximal ==
  [][(pc = "latest" /\ args.latest) =>
       (pc' = "returned" /\ LatestContract(urls, urls'))]_vars

\* an artifact the source derives no version for, or one that does not parse
Unversioned(url) == ~HasParseableVersion(url)

\* C8: an artifact without a parseable version is dropped by the constraint
\* stage and skipped by the latest stage, the run going on with the other
\* artifacts, and it stays in an unconstrained, non-latest listing.
C8_UnversionedArtifactIsRecoverable ==
  /\ [][pc = "constraint" =>
          /\ pc' = "filter"
          /\ \A k \in 1..Len(urls) :
               Unversioned(urls[k]) => StripFragment(urls[k]) \notin Range(urls')]_vars
  /\ [][(pc = "latest" /\ args.latest /\ \E k \in 1..Len(urls) : Unversioned(urls[k])) =>
          /\ pc' = "returned"
          /\ \A k \in 1..Len(urls) : Unversioned(urls[k]) => urls[k] \notin Range(urls')
          /\ (ParseablePositions(urls) # {}) => urls' # <<>>]_vars
  /\ [](  (pc = "returned" /\ ~ConstraintPresent /\ filters = <<>> /\ ~args.latest) =>
            \A k \in 1..Len(listing) :
              Unversioned(listing[k]) => StripFragment(listing[k]) \in Range(urls))

\* a is b with some elements left out, the others in the same order
RECURSIVE IsSubsequence(_, _)
IsSubsequence(a, b) ==
  IF Len(a) = 0 THEN TRUE
  ELSE IF Len(b) = 0 THEN FALSE
  ELSE IF Head(a) = Head(b) THEN IsSubsequence(Tail(a), Tail(b))
  ELSE IsSubsequence(a, Tail(b))

\* main holds the final url list
FinalListReady == pc \in {"show", "download"} \/ (Exited /\ exit_status = 0)

\* C7: without latest the final url list is a subsequence of the
\* fragment-stripped listing, and equal to it when there is no constraint,
\* no name filter and every url has an allowed extension; with latest it
\* has at most one element, which is a stripped url of the listing.
C7_FinalListIsSubsequence ==
  FinalListReady =>
    /\ ~args.latest => IsSubsequence(urls, StrippedListing)
    /\ ( /\ ~args.latest
         /\ ~ConstraintPresent
         /\ filters = <<>>
         /\ \A k \in 1..Len(StrippedListing) :
              HasExtension(StrippedListing[k], Split(args.ext, ",")) )
         => urls = StrippedListing
    /\ args.latest => (Len(urls) <= 1 /\ Range(urls) \subseteq Range(StrippedListing))

\* a constrained run without latest that dropped the first url of the
\* listing and kept a later one
C7_Witness ==
  /\ pc = "download"
  /\ ~args.latest
  /\ ConstraintPresent
  /\ Len(urls) >= 1
  /\ Len(urls) < Len(listing)
  /\ urls[1] # StrippedListing[1]

\* the url passes the constraint and name stages of this run
InFilteredSubset(url) ==
  /\ ConstraintPresent => ConstraintOutcome(url, condition_op, condition_version) = "kept"
  /\ filters # <<>> => MatchesFilters(url, filters)

C3_NoOverwrite ==
  /\ [][(pc = "download" /\ idx <= Len(urls) /\ BaseName(urls[idx]) \in DOMAIN fs)
          => (gets' = gets /\ fs' = fs)]_vars
  /\ [][\A f \in DOMAIN fs : f \in DOMAIN fs' /\ fs'[f] = fs[f]]_vars

\* two final urls share a base name: the first was downloaded, the second
\* skipped
C3_Witness ==
  /\ Len(calls) = 2
  /\ calls[1] # calls[2]
  /\ BaseName(calls[1]) = BaseName(calls[2])
  /\ Len(gets) = 1
  /\ gets[1] = <<calls[1], 200>>
  /\ fs[BaseName(calls[2])] = calls[1]

\* C10: the directory changes only by download_file creating one new file
\* after a GET answered 200; a failed download changes nothing, and a run
\* that shows only or ends on a fatal error issues no artifact GET.
C10_DirectoryChangesOnlyBySuccessfulDownload ==
  /\ [][fs' # fs =>
          /\ pc = "download"
          /\ idx <= Len(urls)
          /\ BaseName(urls[idx]) \notin DOMAIN fs
          /\ gets' = Append(gets, <<urls[idx], 200>>)
          /\ DOMAIN fs' = DOMAIN fs \cup {BaseName(urls[idx])}
          /\ \A f \in DOMAIN fs : fs'[f] = fs[f]]_vars
  /\ [][(gets' # gets /\ gets'[Len(gets')][2] # 200) => fs' = fs]_vars
  /\ []((args.show_only \/ exit_status = 1) => gets = <<>>)
  /\ [](gets = <<>> => FileContents \subseteq {OldContent})

\* a run over an existing directory in which one download failed and
\* another one created a file
C10_Witness ==
  /\ Exited
  /\ OldContent \in FileContents
  /\ \E j, k \in 1..Len(gets) : gets[j][2] = 404 /\ gets[k][2] = 200
  /\ Cardinality(DOMAIN fs) = 2

====
